---- MODULE Spec2Model ----
(***************************************************************************)
(* Quant-Utilities: CumSumFilter (symmetric CUSUM event filter), ETFTrick  *)
(* (weighted "virtual ETF" returns) and TimeSeriesEmbargoCV (train/test    *)
(* folds with an embargo gap).  The three classes share no state; each has *)
(* its own specification (SpecCumSum, SpecETF, SpecSplit) in which the     *)
(* other two classes' variables stay at their idle values.                 *)
(*                                                                         *)
(* Numbers.  Log-returns and the threshold h are integers in tenths        *)
(* (0.1 -> 1); weights are integers in units of 1e-8 (1.0 -> One), and a   *)
(* stored weight is the exact fraction num/den.                            *)
(***************************************************************************)
EXTENDS Integers, Sequences, FiniteSets, TLC

VARIABLES
    \* ---- CumSumFilter instance ----
    data,            \* self._data : sequence of elements
    h,               \* self._h
    has_index,       \* whether self._index exists (Series / DataFrame input)
    events,          \* self._events
    cf_ret,          \* outcome of the last filter() call: "none", "returned", "TypeError"
    cf_prev_events,  \* self._events when the last filter() call was entered
    cf_acc,          \* last accessor read on the filter
    \* ---- TimeSeriesEmbargoCV instance and one split() generator ----
    n_splits,        \* self.n_splits (cv)
    embargo_size,    \* self.embargo_size
    n_samples,       \* len(X)
    split_pc,        \* generator position: "idle", "suspended", "done", "raised"
    split_i,         \* loop variable i of the generator
    folds,           \* the (train, test) pairs yielded so far
    gns_ret,         \* last get_n_splits(X) outcome
    \* ---- ETFTrick instance ----
    etf_pc,          \* "args" (constructor not run yet), "constructed", "ctor_raised"
    prices_type,     \* self._prices_type
    prices_shape,    \* self._prices.shape
    prices_numeric,  \* whether the price dtype supports arithmetic
    weights_arg,     \* the weights argument
    normalize_weights,
    weights,         \* self._weights : [num |-> sequence, den |-> divisor]
    warned,          \* warnings emitted by the constructor
    attrs,           \* the derived attributes that exist, with their shapes
    fit_ret,         \* outcome of the last fit() call: "none", "returned", "raised"
    fit_done,        \* a fit() call has completed on this instance
    prev_attrs,      \* attrs when the last fit() call was entered
    etf_acc          \* last accessor read on the ETFTrick

cfVars == <<data, h, has_index, events, cf_ret, cf_prev_events, cf_acc>>
cvVars == <<n_splits, embargo_size, n_samples, split_pc, split_i, folds, gns_ret>>
etfVars == <<etf_pc, prices_type, prices_shape, prices_numeric, weights_arg,
             normalize_weights, weights, warned, attrs, fit_ret, fit_done,
             prev_attrs, etf_acc>>
vars == <<cfVars, cvVars, etfVars>>

\* ---------------------------------------------------------------- bounds
MaxLen == 6
MaxSamples == 12
MaxCV == 5
MaxEmbargo == 3
MaxRows == 3
MaxAssets == 2

\* ---------------------------------------------------------------- helpers
Max(a, b) == IF a >= b THEN a ELSE b
Min(a, b) == IF a <= b THEN a ELSE b
Abs(a) == IF a < 0 THEN -a ELSE a

RECURSIVE SeqSum(_)
SeqSum(s) == IF s = <<>> THEN 0 ELSE s[1] + SeqSum(Tail(s))

SeqsUpTo(S, n) == UNION {[1..k -> S] : k \in 0..n}

StrictlyIncreasing(s) == \A k \in 1..(Len(s) - 1) : s[k] < s[k + 1]

\* ================================================================
\* CumSumFilter
\* ================================================================
Num(n) == [numeric |-> TRUE, val |-> n]
\* an element of an object-dtype array that is no number (None, a string)
Obj == [numeric |-> FALSE, val |-> 0]

\* log-returns in tenths: -0.5, 0.1, 0.4
ReturnValues == {-5, 1, 4}
Thresholds == {0, 3}
Elements == {Num(n) : n \in ReturnValues} \cup {Obj}

CumSumIdle ==
    /\ data = <<>> /\ h = 0 /\ has_index = FALSE /\ events = <<>>
    /\ cf_ret = "none" /\ cf_prev_events = <<>> /\ cf_acc = [op |-> "none"]

\* __init__: _data, _h as given, _events = []
CumSumInit ==
    /\ data \in SeqsUpTo(Elements, MaxLen)
    /\ h \in Thresholds
    /\ has_index \in BOOLEAN
    /\ events = <<>>
    /\ cf_ret = "none"
    /\ cf_prev_events = <<>>
    /\ cf_acc = [op |-> "none"]

UpTriggerStrict(s_plus, hh) == s_plus > hh
\* if s_plus >= self._h
UpTrigger(s_plus, hh) == s_plus >= hh

DownTriggerNoAbs(s_minus, hh) == s_minus <= hh
\* if abs(s_minus) >= self._h
DownTrigger(s_minus, hh) == Abs(s_minus) >= hh

\* One iteration of the for loop on the numeric value v at 0-based position i.
FilterStep(st, v, i, hh) ==
    LET sp == Max(0, st.s_plus + v)
        sm == Min(0, st.s_minus + v)
        up == UpTrigger(sp, hh)
        ev1 == IF up THEN Append(st.events, i) ELSE st.events
        sp1 == IF up THEN 0 ELSE sp
        sm1 == IF up THEN 0 ELSE sm
        down == DownTrigger(sm1, hh)
        ev2 == IF down THEN Append(ev1, i) ELSE ev1
        sp2 == IF down THEN 0 ELSE sp1
        sm2 == IF down THEN 0 ELSE sm1
    IN [s_plus |-> sp2, s_minus |-> sm2, events |-> ev2, raised |-> FALSE]

\* The loop from 1-based position k on; s_plus + v raises TypeError on a
\* non-numeric element, leaving the events appended so far.
RECURSIVE FilterLoop(_, _, _, _)
FilterLoop(d, hh, k, st) ==
    IF k > Len(d) THEN st
    ELSE IF ~d[k].numeric THEN [st EXCEPT !.raised = TRUE]
    ELSE FilterLoop(d, hh, k + 1, FilterStep(st, d[k].val, k - 1, hh))

\* s_plus, s_minus = 0, 0 ; self._events = [] ; the loop
FilterRun(d, hh) ==
    FilterLoop(d, hh, 1, [s_plus |-> 0, s_minus |-> 0, events |-> <<>>, raised |-> FALSE])

\* filter()
Filter ==
    LET r == FilterRun(data, h) IN
    /\ cf_prev_events' = events
    /\ events' = r.events
    /\ cf_ret' = IF r.raised THEN "TypeError" ELSE "returned"
    /\ UNCHANGED <<data, h, has_index, cf_acc>>
    /\ UNCHANGED <<cvVars, etfVars>>

EventsIndexGuarded(ev) ==
    IF ev = <<>> THEN [outcome |-> "KeyError", value |-> <<>>]
    ELSE [outcome |-> "value", value |-> ev]
\* events_index: return self._events
EventsIndexValue(ev) == [outcome |-> "value", value |-> ev]

\* filtered_events: self._data[self._events]
FilteredEventsValue(d, ev) ==
    [outcome |-> "value", value |-> [k \in 1..Len(ev) |-> d[ev[k] + 1]]]

\* index: KeyError unless the input carried an index
IndexValue(hi) ==
    IF hi THEN [outcome |-> "value", value |-> <<>>]
    ELSE [outcome |-> "KeyError", value |-> <<>>]

ReadEventsIndex ==
    /\ cf_acc' = [op |-> "events_index", before_filter |-> (cf_ret = "none"),
                  res |-> EventsIndexValue(events)]
    /\ UNCHANGED <<data, h, has_index, events, cf_ret, cf_prev_events>>
    /\ UNCHANGED <<cvVars, etfVars>>

ReadFilteredEvents ==
    /\ cf_acc' = [op |-> "filtered_events", before_filter |-> (cf_ret = "none"),
                  res |-> FilteredEventsValue(data, events)]
    /\ UNCHANGED <<data, h, has_index, events, cf_ret, cf_prev_events>>
    /\ UNCHANGED <<cvVars, etfVars>>

ReadIndex ==
    /\ cf_acc' = [op |-> "index", before_filter |-> (cf_ret = "none"),
                  res |-> IndexValue(has_index)]
    /\ UNCHANGED <<data, h, has_index, events, cf_ret, cf_prev_events>>
    /\ UNCHANGED <<cvVars, etfVars>>

\* ================================================================
\* idle values of the classes a specification does not exercise
\* ================================================================
SplitIdle ==
    /\ n_splits = 1 /\ embargo_size = 0 /\ n_samples = 0
    /\ split_pc = "idle" /\ split_i = 0 /\ folds = <<>> /\ gns_ret = [outcome |-> "none"]

ETFIdle ==
    /\ etf_pc = "args" /\ prices_type = "ndarray" /\ prices_shape = <<1>>
    /\ prices_numeric = TRUE /\ weights_arg = <<>> /\ normalize_weights = TRUE
    /\ weights = [num |-> <<>>, den |-> 1] /\ warned = <<>>
    /\ attrs = <<>> /\ fit_ret = "none" /\ fit_done = FALSE /\ prev_attrs = <<>>
    /\ etf_acc = [op |-> "none"]

InitCumSum == CumSumInit /\ SplitIdle /\ ETFIdle
NextCumSum == Filter \/ ReadEventsIndex \/ ReadFilteredEvents \/ ReadIndex
SpecCumSum == InitCumSum /\ [][NextCumSum]_vars

\* ================================================================
\* TimeSeriesEmbargoCV
\* ================================================================
\* __init__: cv and embargo_size are ints, cv >= 1, embargo_size >= 0
SplitInit ==
    /\ n_splits \in 1..MaxCV
    /\ embargo_size \in 0..MaxEmbargo
    /\ n_samples \in 0..MaxSamples
    /\ split_pc = "idle"
    /\ split_i = 0
    /\ folds = <<>>
    /\ gns_ret = [outcome |-> "none"]

\* fold_size = int(n_samples / self.n_splits)
FoldSize(n, cv) == n \div cv

\* (n_samples - self.embargo_size) // fold_size ; min(self.n_splits, ...)
GetNSplitsValue(n, cv, e) == Min(cv, (n - e) \div FoldSize(n, cv))

TrainStartAnchored(i, fs) == 0
\* train_start_idx = i * fold_size
TrainStartIdx(i, fs) == i * fs

\* train_end_idx = i * fold_size + fold_size
TrainEndIdx(i, fs) == i * fs + fs

\* test_start_idx = train_end_idx + self.embargo_size
TestStartIdx(train_end, e) == train_end + e

TestEndShifted(test_start, fs, e) == test_start + fs
\* test_end_idx = test_start_idx + fold_size - self.embargo_size
TestEndIdx(test_start, fs, e) == test_start + fs - e

\* the (train, test) pair of loop index i, as half-open ranges of np.arange
FoldOf(i, fs, e) ==
    LET train_start == TrainStartIdx(i, fs)
        train_end == TrainEndIdx(i, fs)
        test_start == TestStartIdx(train_end, e)
        test_end == TestEndIdx(test_start, fs, e)
    IN [train |-> <<train_start, train_end>>, test |-> <<test_start, test_end>>]

\* get_n_splits(X): ZeroDivisionError when fold_size is 0
GetNSplits ==
    /\ gns_ret' = IF FoldSize(n_samples, n_splits) = 0
                  THEN [outcome |-> "ZeroDivisionError"]
                  ELSE [outcome |-> "value",
                        value |-> GetNSplitsValue(n_samples, n_splits, embargo_size)]
    /\ UNCHANGED <<n_splits, embargo_size, n_samples, split_pc, split_i, folds>>
    /\ UNCHANGED <<cfVars, etfVars>>

\* The for loop entered at index i: exhausted range or break ends the
\* generator, otherwise the pair is yielded and the generator suspends.
LoopAt(i) ==
    LET fs == FoldSize(n_samples, n_splits)
        n_actual_splits == GetNSplitsValue(n_samples, n_splits, embargo_size)
        f == FoldOf(i, fs, embargo_size)
    IN IF i >= n_actual_splits \/ f.test[2] > n_samples
       THEN /\ split_pc' = "done"
            /\ UNCHANGED <<split_i, folds>>
       ELSE /\ split_pc' = "suspended"
            /\ split_i' = i
            /\ folds' = Append(folds, f)

\* first next() on split(X): the body runs from the top to the first yield
SplitFirstNext ==
    /\ split_pc = "idle"
    /\ IF FoldSize(n_samples, n_splits) = 0
       THEN /\ split_pc' = "raised"
            /\ UNCHANGED <<split_i, folds>>
       ELSE LoopAt(0)
    /\ UNCHANGED <<n_splits, embargo_size, n_samples, gns_ret>>
    /\ UNCHANGED <<cfVars, etfVars>>

\* a later next(): the loop resumes after the yield
SplitResume ==
    /\ split_pc = "suspended"
    /\ LoopAt(split_i + 1)
    /\ UNCHANGED <<n_splits, embargo_size, n_samples, gns_ret>>
    /\ UNCHANGED <<cfVars, etfVars>>

InitSplit == SplitInit /\ CumSumIdle /\ ETFIdle
NextSplit == GetNSplits \/ SplitFirstNext \/ SplitResume
SpecSplit == InitSplit /\ [][NextSplit]_vars

Range(r) == r[1]..(r[2] - 1)

\* ================================================================
\* ETFTrick
\* ================================================================
\* 1.0 in weight units of 1e-8
One == 100000000
\* np.isclose(total_weights, 1.0): numpy's defaults atol = 1e-8 and
\* rtol = 1e-5 (times |1.0|), in weight units
AtolUnits == 1
RtolUnits == 1000

\* weights 0.0, 0.5, 0.500005, 1.0, -0.5
WeightValues == {0, 50000000, 50000500, One, -50000000}

DerivedAttrs == {"_returns", "_cumulative_returns", "_etf_returns", "_etf_cumulative_returns"}

\* the arguments of a constructor call: an ndarray of one or two dimensions
\* or a DataFrame (two dimensions), and an ndarray of weights
ETFArgs ==
    /\ etf_pc = "args"
    /\ prices_type \in {"ndarray", "DataFrame"}
    /\ prices_shape \in {<<t>> : t \in 1..MaxRows}
                        \cup {<<t, n>> : t \in 1..MaxRows, n \in 1..MaxAssets}
    /\ (prices_type = "DataFrame" => Len(prices_shape) = 2)
    /\ prices_numeric \in BOOLEAN
    /\ weights_arg \in UNION {[1..k -> WeightValues] : k \in 1..Max(MaxAssets, MaxRows)}
    /\ normalize_weights \in BOOLEAN
    /\ weights = [num |-> <<>>, den |-> 1]
    /\ warned = <<>>
    /\ attrs = <<>>
    /\ fit_ret = "none"
    /\ fit_done = FALSE
    /\ prev_attrs = <<>>
    /\ etf_acc = [op |-> "none"]

\* self._weights.shape[0] == self._prices.shape[-1]
ShapesMatch(w, shape) == Len(w) = shape[Len(shape)]

\* np.isclose(total_weights, 1.0)
IsCloseToOne(total) == Abs(total - One) <= AtolUnits + RtolUnits

\* __init__ from the shape check on: ValueError on a mismatch, otherwise the
\* weights are kept, or divided by their sum with a warning, or kept with a
\* warning.  A stored weight is num[i] / den; division by a zero sum gives
\* den = 0 (numpy yields inf or nan and goes on).
Construct ==
    /\ etf_pc = "args"
    /\ IF ~ShapesMatch(weights_arg, prices_shape)
       THEN /\ etf_pc' = "ctor_raised"
            /\ UNCHANGED <<weights, warned>>
       ELSE LET total_weights == SeqSum(weights_arg) IN
            /\ etf_pc' = "constructed"
            /\ IF ~IsCloseToOne(total_weights)
               THEN IF normalize_weights
                    THEN /\ weights' = [num |-> weights_arg, den |-> total_weights]
                         /\ warned' = Append(warned, "Weights normalized")
                    ELSE /\ weights' = [num |-> weights_arg, den |-> One]
                         /\ warned' = Append(warned, "Sum of weights is not 1.0")
               ELSE /\ weights' = [num |-> weights_arg, den |-> One]
                    /\ UNCHANGED warned
    /\ UNCHANGED <<prices_type, prices_shape, prices_numeric, weights_arg,
                   normalize_weights, attrs, fit_ret, fit_done, prev_attrs, etf_acc>>
    /\ UNCHANGED <<cfVars, cvVars>>

SetAttr(a, name, shape) == (name :> shape) @@ a

\* shape of self._prices[1:] / self._prices[:-1] - 1
ReturnsShape(shape) == [shape EXCEPT ![1] = @ - 1]

\* self._returns @ self._weights is defined when the last axis of the returns
\* has the length of the weights
MatMulDefined(shape, w) == shape[Len(shape)] = Len(w)

\* fit(), statement by statement: the division raises TypeError on a
\* non-numeric dtype before anything is assigned; the matrix product raises
\* ValueError on a shape mismatch after _returns and _cumulative_returns
\* have been assigned.
FitRun(a0) ==
    IF ~prices_numeric THEN [attrs |-> a0, raised |-> TRUE]
    ELSE LET rs == ReturnsShape(prices_shape)
             a1 == SetAttr(a0, "_returns", rs)
             a2 == SetAttr(a1, "_cumulative_returns", rs)
         IN IF ~MatMulDefined(rs, weights.num)
            THEN [attrs |-> a2, raised |-> TRUE]
            ELSE LET es == SubSeq(rs, 1, Len(rs) - 1)
                     a3 == SetAttr(a2, "_etf_returns", es)
                     a4 == SetAttr(a3, "_etf_cumulative_returns", es)
                 IN [attrs |-> a4, raised |-> FALSE]

Fit ==
    /\ etf_pc = "constructed"
    /\ LET r == FitRun(attrs) IN
       /\ prev_attrs' = attrs
       /\ attrs' = r.attrs
       /\ fit_ret' = IF r.raised THEN "raised" ELSE "returned"
       /\ fit_done' = (fit_done \/ ~r.raised)
    /\ UNCHANGED <<etf_pc, prices_type, prices_shape, prices_numeric, weights_arg,
                   normalize_weights, weights, warned, etf_acc>>
    /\ UNCHANGED <<cfVars, cvVars>>

\* if not hasattr(self, name): raise KeyError(...) ; return the value
AccessorValue(a, name) ==
    IF name \notin DOMAIN a THEN [outcome |-> "KeyError", value |-> <<>>]
    ELSE [outcome |-> "value", value |-> a[name]]

\* etf_returns, etf_cumulative_returns, returns, cumulative_returns
ReadDerived ==
    /\ etf_pc = "constructed"
    /\ \E name \in DerivedAttrs :
          etf_acc' = [op |-> name, fit_done |-> fit_done, res |-> AccessorValue(attrs, name)]
    /\ UNCHANGED <<etf_pc, prices_type, prices_shape, prices_numeric, weights_arg,
                   normalize_weights, weights, warned, attrs, fit_ret, fit_done, prev_attrs>>
    /\ UNCHANGED <<cfVars, cvVars>>

InitETF == ETFArgs /\ CumSumIdle /\ SplitIdle
NextETF == Construct \/ Fit \/ ReadDerived
SpecETF == InitETF /\ [][NextETF]_vars

\* ================================================================
\* Properties
\* ================================================================
\* C1: with a threshold h > 0, filter() records each position at most once
\* (the two triggers never both fire at one position), so the event indices
\* are strictly increasing.
C1_EventsStrictlyIncreasing == h > 0 => StrictlyIncreasing(events)

\* a finished run with h > 0 that recorded events at two adjacent positions
C1_Witness ==
    /\ h > 0 /\ cf_ret = "returned"
    /\ \E k \in 1..(Len(events) - 1) : events[k + 1] = events[k] + 1

\* C10: also with a threshold h <= 0, filter() records each position at most
\* once, so the event indices it returns are strictly increasing.
C10_NonPositiveThreshold ==
    (h <= 0 /\ cf_ret = "returned") => StrictlyIncreasing(events)

\* the sequence [0.1, 0.1, 0.1, -0.5, 0.4, 0.4], in tenths
Scenario == <<Num(1), Num(1), Num(1), Num(-5), Num(4), Num(4)>>

\* C5 (as stated): filter() on the scenario sequence with h = 0.3 returns
\* exactly the events [2, 3].
C5_ScenarioEventsOriginal ==
    (data = Scenario /\ h = 3 /\ cf_ret = "returned") => events = <<2, 3>>

\* C5 (amended): filter() on the scenario sequence with h = 0.3 returns the
\* events [2, 3, 4, 5]: after the reset at index 3 each 0.4 alone reaches
\* the threshold.
C5_ScenarioEvents ==
    (data = Scenario /\ h = 3 /\ cf_ret = "returned") => events = <<2, 3, 4, 5>>

C5_Witness == data = Scenario /\ h = 3 /\ cf_ret = "returned" /\ Len(events) = 4

\* C7 (as stated): events_index or filtered_events read before filter() has
\* run raises a lookup error.
C7_ReadBeforeFilterRaises ==
    (cf_acc.op \in {"events_index", "filtered_events"} /\ cf_acc.before_filter)
        => cf_acc.res.outcome = "KeyError"

\* C7 (amended): events_index or filtered_events read before filter() has
\* run raises nothing and returns an empty result.
C7_ReadBeforeFilterEmpty ==
    (cf_acc.op \in {"events_index", "filtered_events"} /\ cf_acc.before_filter)
        => (cf_acc.res.outcome = "value" /\ Len(cf_acc.res.value) = 0)

\* events_index read on a non-empty input before any filter() call
C7_Witness ==
    /\ cf_acc.op = "events_index" /\ cf_acc.before_filter
    /\ cf_ret = "none" /\ Len(data) > 0

\* C2: the fold yielded for loop index i has train range
\* [i*fold_size, (i+1)*fold_size) and test range
\* [(i+1)*fold_size + embargo_size, (i+2)*fold_size); train start to test end
\* spans 2*fold_size and the test end never exceeds the sequence length.
C2_FoldRanges ==
    \A k \in 1..Len(folds) :
        LET i == k - 1
            fs == FoldSize(n_samples, n_splits)
        IN /\ fs >= 1
           /\ folds[k].train = <<i * fs, (i + 1) * fs>>
           /\ folds[k].test = <<(i + 1) * fs + embargo_size, (i + 2) * fs>>
           /\ folds[k].test[2] - folds[k].train[1] = 2 * fs
           /\ folds[k].test[2] <= n_samples

\* an exhausted generator that yielded at least two folds with an embargo
C2_Witness == split_pc = "done" /\ Len(folds) >= 2 /\ embargo_size >= 1

Disjoint(r1, r2) == Range(r1) \cap Range(r2) = {}

\* within a fold every train index precedes every test index, embargo_size
\* positions lying between the two ranges
TrainBeforeTest(f) ==
    /\ \A a \in Range(f.train) : \A b \in Range(f.test) : a < b
    /\ f.test[1] - f.train[2] = embargo_size

\* C3 (as stated): no position belongs to a range of one fold and to a range
\* (train or test) of another fold, and within each fold train precedes test
\* with the embargo gap.
C3_AllRangesDisjoint ==
    /\ \A j, k \in 1..Len(folds) :
          j # k => \A r1 \in {folds[j].train, folds[j].test} :
                   \A r2 \in {folds[k].train, folds[k].test} : Disjoint(r1, r2)
    /\ \A k \in 1..Len(folds) : TrainBeforeTest(folds[k])

\* C3 (amended): the train ranges of different folds are disjoint, the test
\* ranges of different folds are disjoint, a test range meets the train
\* range of no fold but the next one, and within each fold train precedes
\* test with the embargo gap.
C3_SameKindRangesDisjoint ==
    /\ \A j, k \in 1..Len(folds) :
          j # k => /\ Disjoint(folds[j].train, folds[k].train)
                   /\ Disjoint(folds[j].test, folds[k].test)
                   /\ (~Disjoint(folds[j].test, folds[k].train) => k = j + 1)
    /\ \A k \in 1..Len(folds) : TrainBeforeTest(folds[k])

\* two folds yielded, the first one's test range meeting the second one's
\* train range
C3_Witness ==
    /\ Len(folds) >= 2
    /\ ~Disjoint(folds[1].test, folds[2].train)

\* C4: get_n_splits(X) equals the number of (train, test) pairs split(X)
\* yields.
C4_NSplitsIsYieldCount ==
    (split_pc = "done" /\ gns_ret.outcome = "value") => Len(folds) = gns_ret.value

\* C6: a derived accessor raises KeyError as long as no fit() call has
\* completed on the instance, and returns a value after a completed fit().
C6_AccessorsFollowFit ==
    etf_acc.op \in DerivedAttrs =>
        IF etf_acc.fit_done THEN etf_acc.res.outcome = "value"
        ELSE etf_acc.res.outcome = "KeyError"

\* the stored weights sum to 1.0 within 1e-8
SumWithinTolerance(w) ==
    /\ w.den # 0
    /\ Abs(SeqSum(w.num) - w.den) <= Abs(w.den) \div One

\* C8: a weight sum of exactly 1.0 leaves the weights alone without a
\* warning; a sum off 1.0 by 1e-8 or more (0 included) always warns, and
\* the stored weights are original/S summing to 1.0 within 1e-8 when
\* normalization is on, the original weights when it is off.
C8_WeightNormalization ==
    etf_pc = "constructed" =>
        LET S == SeqSum(weights_arg) IN
        /\ S = One => (weights = [num |-> weights_arg, den |-> One] /\ warned = <<>>)
        /\ Abs(S - One) >= 1 =>
              /\ warned # <<>>
              /\ normalize_weights =>
                    (weights = [num |-> weights_arg, den |-> S] /\ SumWithinTolerance(weights))
              /\ ~normalize_weights => weights = [num |-> weights_arg, den |-> One]

\* C9: a fit() or filter() call that raises leaves the instance as it was
\* when the call was entered: no derived attribute appears, and the cached
\* events are the ones cached before the call.
C9_NoPartialMutation ==
    /\ fit_ret = "raised" => DOMAIN attrs = DOMAIN prev_attrs
    /\ cf_ret = "TypeError" => events = cf_prev_events

====
